---- MODULE Spec2Model ----
(***************************************************************************)
(* A model of lambda/index.py: the chat request handler lambda_handler,    *)
(* its lazily created module-level Bedrock client, and the region          *)
(* resolution helper extract_region_from_arn.                              *)
(*                                                                         *)
(* One invocation of lambda_handler is a small sequential process (pc[i]). *)
(* Spec runs the invocations of one warm process one after another;        *)
(* ConcSpec lets them interleave as threads sharing the module global.     *)
(*                                                                         *)
(* JSON texts (the request body, the provider reply, the envelope body)    *)
(* are represented by the value they decode to; an absent key is a         *)
(* has... flag set to FALSE.  A string is a TLA+ string; an ARN is the     *)
(* sequence of its chunks between colons.                                  *)
(***************************************************************************)
EXTENDS Integers, Sequences, FiniteSets, TLC

\* ------------------------------------------------------------ bounds
NumInv == 2        \* invocation slots of the warm process
MaxHist == 2       \* longest input conversationHistory

Inv == 1..NumInv

\* ------------------------------------------------------------ configuration
MODEL_ID == "us.amazon.nova-lite-v1:0"
MAX_TOKENS == 512
TEMPERATURE == "0.7"
TOP_P == "0.9"

\* ------------------------------------------------------------ values
\* A content string is tagged with the invocation slot that supplied it.
Text(tag, i) == <<tag, i>>
NoText == <<"", 0>>

Turn(r, c) == [role |-> r, hasRole |-> TRUE, content |-> c, hasContent |-> TRUE]
TurnNoRole(c) == [role |-> "", hasRole |-> FALSE, content |-> c, hasContent |-> TRUE]
TurnNoContent(r) == [role |-> r, hasRole |-> TRUE, content |-> NoText, hasContent |-> FALSE]

NoClient == [set |-> FALSE, region |-> "", id |-> 0]

NoException == [type |-> "", msg |-> "", hasCode |-> FALSE, code |-> ""]
Exc(t, m) == [type |-> t, msg |-> m, hasCode |-> FALSE, code |-> ""]
ClientError(m, c) == [type |-> "ClientError", msg |-> m, hasCode |-> TRUE, code |-> c]
ClientErrorNoCode(m) == [type |-> "ClientError", msg |-> m, hasCode |-> FALSE, code |-> ""]

\* The classes `except Exception` catches, among those the handler can meet.
ExceptionClasses ==
    {"ClientError", "KeyError", "TypeError", "AttributeError", "JSONDecodeError",
     "IndexError", "EndpointConnectionError", "Exception"}

\* ------------------------------------------------------------ region resolution
\* chunks c for which "...c:" ends with the literal "arn:"
EndsWithArn(c) == c \in {"arn", "xarn"}

\* re.search('arn:aws:lambda:([^:]+):', s) on s = parts joined by ':' matches
\* at chunk p when the chunk ends in "arn", the next two are "aws" and
\* "lambda", the one after is not empty ([^:]+) and a colon follows it.
ArnMatchAt(parts, p) ==
    /\ p + 3 < Len(parts)
    /\ EndsWithArn(parts[p])
    /\ parts[p + 1] = "aws"
    /\ parts[p + 2] = "lambda"
    /\ parts[p + 3] # ""

ArnMatches(parts) == {p \in 1..Len(parts) : ArnMatchAt(parts, p)}

Least(S) == CHOOSE x \in S : \A y \in S : x <= y

extract_region_from_arn(parts) ==
    IF ArnMatches(parts) # {}
    THEN parts[Least(ArnMatches(parts)) + 3]
    ELSE "us-east-1"

\* ------------------------------------------------------------ envelope
Headers ==
    ("Content-Type" :> "application/json")
    @@ ("Access-Control-Allow-Origin" :> "*")
    @@ ("Access-Control-Allow-Headers" :>
            "Content-Type,X-Amz-Date,Authorization,X-Api-Key,X-Amz-Security-Token")
    @@ ("Access-Control-Allow-Methods" :> "OPTIONS,POST")

NoResult == [kind |-> "none"]

SuccessEnvelope(text, msgs) ==
    [kind |-> "returned", statusCode |-> 200, headers |-> Headers,
     body |-> [success |-> TRUE, response |-> text,
               conversationHistory |-> msgs, modelId |-> MODEL_ID]]

\* a first except clause that forgets the code
ClientErrorEnvelopeNoCode(exc) ==
    [kind |-> "returned", statusCode |-> 500, headers |-> Headers,
     body |-> [success |-> FALSE, error |-> "AWS Client Error: " \o exc.msg]]

ClientErrorEnvelope(exc) ==
    [kind |-> "returned", statusCode |-> 500, headers |-> Headers,
     body |-> [success |-> FALSE,
               error |-> "AWS Client Error: " \o exc.msg,
               errorCode |-> IF exc.hasCode THEN exc.code ELSE "Unknown"]]

ErrorEnvelope(exc) ==
    [kind |-> "returned", statusCode |-> 500, headers |-> Headers,
     body |-> [success |-> FALSE, error |-> exc.msg]]

Escaped(exc) == [kind |-> "raised", exception |-> exc]

\* a handler with the first except clause only
HandleOnlyClientError(exc) ==
    IF exc.type = "ClientError" THEN ClientErrorEnvelope(exc) ELSE Escaped(exc)

\* the two except clauses of lambda_handler, tried in order
HandleException(exc) ==
    IF exc.type = "ClientError" THEN ClientErrorEnvelope(exc)
    ELSE IF exc.type \in ExceptionClasses THEN ErrorEnvelope(exc)
    ELSE Escaped(exc)

\* ------------------------------------------------------------ request decoding
Ok(v) == [ok |-> TRUE, val |-> v, exc |-> NoException]
Err(e) == [ok |-> FALSE, val |-> <<>>, exc |-> e]

\* lines 35-47: the event is logged, the authorizer claims are read when the
\* event carries an authorizer, the body is parsed, message and
\* conversationHistory are taken from it.
DecodeRequest(ev) ==
    IF ev.isNone
    THEN Err(Exc("TypeError", "argument of type 'NoneType' is not iterable"))
    ELSE IF ev.auth = "noclaims" THEN Err(Exc("KeyError", "'claims'"))
    ELSE IF ev.body.kind = "missing" THEN Err(Exc("KeyError", "'body'"))
    ELSE IF ev.body.kind = "null"
    THEN Err(Exc("TypeError", "the JSON object must be str, bytes or bytearray, not NoneType"))
    ELSE IF ev.body.kind = "invalid"
    THEN Err(Exc("JSONDecodeError", "Expecting value: line 1 column 1 (char 0)"))
    ELSE IF ~ev.body.isObj
    THEN Err(Exc("TypeError", "list indices must be integers or slices, not str"))
    ELSE IF ~ev.body.hasMessage THEN Err(Exc("KeyError", "'message'"))
    ELSE Ok([message |-> ev.body.message,
             conversation_history |->
                 IF ev.body.hasHistory
                 THEN [isList |-> ev.body.historyIsList, items |-> ev.body.history]
                 ELSE [isList |-> TRUE, items |-> <<>>]])

Recognized(t) == t.hasRole /\ t.role \in {"user", "assistant"}

\* an assembler that keeps the recognized turns only
AssembleRecognized(history, message) ==
    IF ~history.isList
    THEN Err(Exc("AttributeError", "'NoneType' object has no attribute 'copy'"))
    ELSE Ok(Append(SelectSeq(history.items, Recognized), Turn("user", message)))

\* lines 53-59: copy the history and append the user turn
AssembleMessages(history, message) ==
    IF ~history.isList
    THEN Err(Exc("AttributeError", "'NoneType' object has no attribute 'copy'"))
    ELSE Ok(Append(history.items, Turn("user", message)))

\* lines 62-73: the loop over messages, from index k with bedrock_messages acc
BedrockMessage(r, c) == [role |-> r, content |-> <<[text |-> c]>>]

RECURSIVE TranslateFrom(_, _, _)
TranslateFrom(msgs, k, acc) ==
    IF k > Len(msgs) THEN Ok(acc)
    ELSE IF ~msgs[k].hasRole THEN Err(Exc("KeyError", "'role'"))
    ELSE IF msgs[k].role = "user"
    THEN IF ~msgs[k].hasContent THEN Err(Exc("KeyError", "'content'"))
         ELSE TranslateFrom(msgs, k + 1, Append(acc, BedrockMessage("user", msgs[k].content)))
    ELSE IF msgs[k].role = "assistant"
    THEN IF ~msgs[k].hasContent THEN Err(Exc("KeyError", "'content'"))
         ELSE TranslateFrom(msgs, k + 1, Append(acc, BedrockMessage("assistant", msgs[k].content)))
    ELSE TranslateFrom(msgs, k + 1, acc)

\* a translator that forwards every turn
TranslateEveryRole(msgs) ==
    Ok([k \in 1..Len(msgs) |-> BedrockMessage(msgs[k].role, msgs[k].content)])

TranslateMessages(msgs) == TranslateFrom(msgs, 1, <<>>)

\* lines 76-84
RequestPayload(bm) ==
    [messages |-> bm,
     inferenceConfig |-> [maxTokens |-> MAX_TOKENS, stopSequences |-> <<>>,
                          temperature |-> TEMPERATURE, topP |-> TOP_P]]

NoPayload == RequestPayload(<<>>)

\* ------------------------------------------------------------ reply handling
\* lines 101-103: the three-level truthiness test
NoResponseContent(rb) ==
    \/ ~rb.hasOutput
    \/ ~rb.hasMessage
    \/ ~rb.hasContent
    \/ rb.content = <<>>

\* lines 97-107: parse, validate, extract the text
ExtractResponse(reply) ==
    IF ~reply.parses
    THEN Err(Exc("JSONDecodeError", "Expecting value: line 1 column 1 (char 0)"))
    ELSE IF ~reply.isObj
    THEN Err(Exc("AttributeError", "'list' object has no attribute 'get'"))
    ELSE IF NoResponseContent(reply)
    THEN Err(Exc("Exception", "No response content from the model"))
    ELSE IF ~reply.content[1].hasText THEN Err(Exc("KeyError", "'text'"))
    ELSE Ok(reply.content[1].text)

\* ------------------------------------------------------------ inputs
CtxNone == [present |-> FALSE, arnIsStr |-> FALSE, arn |-> <<>>]
CtxNoArn == [present |-> TRUE, arnIsStr |-> FALSE, arn |-> <<>>]
Ctx(parts) == [present |-> TRUE, arnIsStr |-> TRUE, arn |-> parts]

ArnEuWest == <<"arn", "aws", "lambda", "eu-west-1", "123456789012", "function", "chat">>
ArnUsWest == <<"arn", "aws", "lambda", "us-west-2", "123456789012", "function", "chat">>

ArnInputs ==
    {ArnEuWest, ArnUsWest,
     <<"arn", "aws", "s3", "eu-west-1", "123456789012">>,
     <<"arn", "aws", "lambda", "eu-west-1">>,
     <<"arn", "aws", "lambda", "", "123456789012", "function", "chat">>,
     <<"xarn", "aws", "lambda", "ap-south-1", "123456789012">>,
     <<"not-an-arn">>,
     <<"">>}

Contexts == {CtxNone, CtxNoArn} \cup {Ctx(a) : a \in ArnInputs}
\* the interleaved specification draws from a few inputs per slot
SmallContexts == {Ctx(ArnEuWest), Ctx(ArnUsWest)}

SeqsUpTo(S, n) == UNION {[1..k -> S] : k \in 0..n}

TurnInputs(i) ==
    {Turn("user", Text("old-question", i)),
     Turn("assistant", Text("old-answer", i)),
     Turn("system", Text("old-note", i)),
     TurnNoContent("tool"),
     TurnNoContent("user"),
     TurnNoRole(Text("old-note", i))}

Histories(i) == SeqsUpTo(TurnInputs(i), MaxHist)

NoBody ==
    [kind |-> "missing", isObj |-> FALSE, hasMessage |-> FALSE, message |-> NoText,
     hasHistory |-> FALSE, historyIsList |-> FALSE, history |-> <<>>]

JsonBody(obj, hasMsg, m, hasHist, isList, h) ==
    [kind |-> "json", isObj |-> obj, hasMessage |-> hasMsg, message |-> m,
     hasHistory |-> hasHist, historyIsList |-> isList, history |-> h]

Event(a, b) == [isNone |-> FALSE, auth |-> a, body |-> b]

ChatBody(i, h) == JsonBody(TRUE, TRUE, Text("question", i), TRUE, TRUE, h)

BadEvents(i) ==
    {[isNone |-> TRUE, auth |-> "absent", body |-> NoBody],
     Event("noclaims", ChatBody(i, <<>>)),
     Event("absent", NoBody),
     Event("absent", [NoBody EXCEPT !.kind = "null"]),
     Event("absent", [NoBody EXCEPT !.kind = "invalid"]),
     Event("absent", JsonBody(FALSE, FALSE, NoText, FALSE, FALSE, <<>>)),
     Event("absent", JsonBody(TRUE, FALSE, NoText, TRUE, TRUE, <<>>)),
     Event("absent", JsonBody(TRUE, TRUE, Text("question", i), TRUE, FALSE, <<>>))}

GoodEvents(i) ==
    {Event("absent", ChatBody(i, h)) : h \in Histories(i)}
    \cup {Event("claims", ChatBody(i, <<>>)),
          Event("absent", JsonBody(TRUE, TRUE, Text("question", i), FALSE, FALSE, <<>>))}

Events(i) == BadEvents(i) \cup GoodEvents(i)

\* a request that fails in decoding and one with an unrecognized turn
SmallEvents(i) ==
    {Event("absent", NoBody),
     Event("absent", ChatBody(i, <<Turn("system", Text("old-note", i)),
                                   Turn("assistant", Text("old-answer", i))>>))}

Reply(out, msg, cont, c) ==
    [parses |-> TRUE, isObj |-> TRUE, hasOutput |-> out, hasMessage |-> msg,
     hasContent |-> cont, content |-> c]

TextBlock(t) == [hasText |-> TRUE, text |-> t]
EmptyBlock == [hasText |-> FALSE, text |-> NoText]

GoodReply(i) == Reply(TRUE, TRUE, TRUE, <<TextBlock(Text("answer", i))>>)

Replies(i) ==
    {GoodReply(i),
     Reply(TRUE, TRUE, TRUE, <<TextBlock(Text("answer", i)), TextBlock(Text("more", i))>>),
     Reply(TRUE, TRUE, TRUE, <<EmptyBlock>>),
     Reply(TRUE, TRUE, TRUE, <<>>),
     Reply(TRUE, TRUE, FALSE, <<>>),
     Reply(TRUE, FALSE, FALSE, <<>>),
     Reply(FALSE, FALSE, FALSE, <<>>),
     [Reply(FALSE, FALSE, FALSE, <<>>) EXCEPT !.isObj = FALSE],
     [Reply(FALSE, FALSE, FALSE, <<>>) EXCEPT !.parses = FALSE, !.isObj = FALSE]}

NoReply == Reply(FALSE, FALSE, FALSE, <<>>)

Returns(r) == [raises |-> FALSE, exc |-> NoException, reply |-> r]
Raises(e) == [raises |-> TRUE, exc |-> e, reply |-> NoReply]

Throttled ==
    ClientError("An error occurred (ThrottlingException) when calling the InvokeModel operation",
                "ThrottlingException")
Uncoded == ClientErrorNoCode("An error occurred (Unknown) when calling the InvokeModel operation")
Unreachable == Exc("EndpointConnectionError", "Could not connect to the endpoint URL")

Outcomes(i) == {Returns(r) : r \in Replies(i)} \cup {Raises(Throttled), Raises(Uncoded), Raises(Unreachable)}
\* the provider answers, or refuses with an error response
SmallOutcomes(i) == {Returns(GoodReply(i)), Raises(Throttled)}

\* the inputs of each invocation slot, computed once
EventInputs == [i \in Inv |-> Events(i)]
SmallEventInputs == [i \in Inv |-> SmallEvents(i)]
OutcomeInputs == [i \in Inv |-> Outcomes(i)]
SmallOutcomeInputs == [i \in Inv |-> SmallOutcomes(i)]

\* ------------------------------------------------------------ state
VARIABLES
    bedrock_client,        \* the module global (line 18)
    pc,                    \* where each invocation stands
    event, context,        \* the arguments of each invocation
    message, conversation_history, messages, request_payload, response,
    result,                \* what the invocation gave its caller
    exception,             \* history: the exception the try block raised
    trace,                 \* history: the stages the invocation went through
    calls,                 \* history: invoke_model calls of the invocation
    usedClient,            \* history: the handle the call went through
    clientWasUnset,        \* history: what the test of line 30 saw
    clientsCreated,        \* history: boto3.client constructions so far
    firstClient            \* history: the first handle stored in the global

locals == <<event, context, message, conversation_history, messages, request_payload, response>>
vars == <<bedrock_client, pc, event, context, message, conversation_history, messages,
          request_payload, response, result, exception, trace, calls, usedClient,
          clientWasUnset, clientsCreated, firstClient>>

NoEvent == [isNone |-> TRUE, auth |-> "absent", body |-> NoBody]
NoHistory == [isList |-> TRUE, items |-> <<>>]

Init ==
    /\ bedrock_client = NoClient
    /\ pc = [i \in Inv |-> "idle"]
    /\ event = [i \in Inv |-> NoEvent]
    /\ context = [i \in Inv |-> CtxNone]
    /\ message = [i \in Inv |-> NoText]
    /\ conversation_history = [i \in Inv |-> NoHistory]
    /\ messages = [i \in Inv |-> <<>>]
    /\ request_payload = [i \in Inv |-> NoPayload]
    /\ response = [i \in Inv |-> NoReply]
    /\ result = [i \in Inv |-> NoResult]
    /\ exception = [i \in Inv |-> NoException]
    /\ trace = [i \in Inv |-> <<>>]
    /\ calls = [i \in Inv |-> 0]
    /\ usedClient = [i \in Inv |-> NoClient]
    /\ clientWasUnset = [i \in Inv |-> FALSE]
    /\ clientsCreated = 0
    /\ firstClient = NoClient

\* ------------------------------------------------------------ steps of lambda_handler
\* a handler that calls the provider again after a ClientError
RaiseAndRetry(i, exc) ==
    IF exc.type = "ClientError"
    THEN /\ pc' = [pc EXCEPT ![i] = "invoke"]
         /\ UNCHANGED <<result, exception, trace>>
    ELSE /\ pc' = [pc EXCEPT ![i] = "done"]
         /\ result' = [result EXCEPT ![i] = HandleException(exc)]
         /\ exception' = [exception EXCEPT ![i] = exc]
         /\ trace' = [trace EXCEPT ![i] = Append(@, "Failure")]

\* an exception raised inside the try block reaches the except clauses
Raise(i, exc) ==
    /\ pc' = [pc EXCEPT ![i] = "done"]
    /\ result' = [result EXCEPT ![i] = HandleException(exc)]
    /\ exception' = [exception EXCEPT ![i] = exc]
    /\ trace' = [trace EXCEPT ![i] = Append(@, "Failure")]

Advance(i, to, stage) ==
    /\ pc' = [pc EXCEPT ![i] = to]
    /\ trace' = [trace EXCEPT ![i] = Append(@, stage)]
    /\ UNCHANGED <<result, exception>>

\* the platform calls lambda_handler(event, context)
Begin(i, evs, ctxs) ==
    /\ pc[i] = "idle"
    /\ \E ev \in evs, ctx \in ctxs :
        /\ event' = [event EXCEPT ![i] = ev]
        /\ context' = [context EXCEPT ![i] = ctx]
    /\ pc' = [pc EXCEPT ![i] = "init"]
    /\ trace' = [trace EXCEPT ![i] = <<"Start">>]
    /\ UNCHANGED <<bedrock_client, message, conversation_history, messages, request_payload,
                   response, result, exception, calls, usedClient, clientWasUnset,
                   clientsCreated, firstClient>>

\* a test that is always true: every invocation builds a client
AlwaysNeedsClient(client) == TRUE

\* line 30
NeedsClient(client) == ~client.set

CheckClient(i) ==
    /\ pc[i] = "init"
    /\ clientWasUnset' = [clientWasUnset EXCEPT ![i] = ~bedrock_client.set]
    /\ pc' = [pc EXCEPT ![i] = IF NeedsClient(bedrock_client) THEN "create" ELSE "decode"]
    /\ UNCHANGED <<bedrock_client, locals, result, exception, trace, calls, usedClient,
                   clientsCreated, firstClient>>

NewClient(region, n) == [set |-> TRUE, region |-> region, id |-> n]

\* lines 31-33
CreateClient(i) ==
    /\ pc[i] = "create"
    /\ IF ~context[i].present
       THEN /\ Raise(i, Exc("AttributeError",
                            "'NoneType' object has no attribute 'invoked_function_arn'"))
            /\ UNCHANGED <<bedrock_client, clientsCreated, firstClient>>
       ELSE IF ~context[i].arnIsStr
       THEN /\ Raise(i, Exc("TypeError", "expected string or bytes-like object"))
            /\ UNCHANGED <<bedrock_client, clientsCreated, firstClient>>
       ELSE LET c == NewClient(extract_region_from_arn(context[i].arn), clientsCreated + 1)
            IN  /\ bedrock_client' = c
                /\ clientsCreated' = clientsCreated + 1
                /\ firstClient' = IF firstClient.set THEN firstClient ELSE c
                /\ pc' = [pc EXCEPT ![i] = "decode"]
                /\ UNCHANGED <<result, exception, trace>>
    /\ UNCHANGED <<locals, calls, usedClient, clientWasUnset>>

\* lines 35-50
Decode(i) ==
    /\ pc[i] = "decode"
    /\ LET d == DecodeRequest(event[i])
       IN  IF d.ok
           THEN /\ message' = [message EXCEPT ![i] = d.val.message]
                /\ conversation_history' =
                       [conversation_history EXCEPT ![i] = d.val.conversation_history]
                /\ Advance(i, "assemble", "Decoded")
           ELSE /\ Raise(i, d.exc)
                /\ UNCHANGED <<message, conversation_history>>
    /\ UNCHANGED <<bedrock_client, event, context, messages, request_payload, response, calls,
                   usedClient, clientWasUnset, clientsCreated, firstClient>>

\* one module-level list written by every invocation
StoreShared(i, m) == [j \in Inv |-> m]

\* the invocation's own list `messages`
StoreMessages(i, m) == [messages EXCEPT ![i] = m]

\* lines 53-59
Assemble(i) ==
    /\ pc[i] = "assemble"
    /\ LET a == AssembleMessages(conversation_history[i], message[i])
       IN  IF a.ok
           THEN /\ messages' = StoreMessages(i, a.val)
                /\ Advance(i, "translate", "Assembled")
           ELSE /\ Raise(i, a.exc)
                /\ UNCHANGED messages
    /\ UNCHANGED <<bedrock_client, event, context, message, conversation_history,
                   request_payload, response, calls, usedClient, clientWasUnset,
                   clientsCreated, firstClient>>

\* lines 62-87
Translate(i) ==
    /\ pc[i] = "translate"
    /\ LET t == TranslateMessages(messages[i])
       IN  IF t.ok
           THEN /\ request_payload' = [request_payload EXCEPT ![i] = RequestPayload(t.val)]
                /\ Advance(i, "invoke", "Translated")
           ELSE /\ Raise(i, t.exc)
                /\ UNCHANGED request_payload
    /\ UNCHANGED <<bedrock_client, event, context, message, conversation_history, messages,
                   response, calls, usedClient, clientWasUnset, clientsCreated, firstClient>>

\* lines 90-94: one call through the global handle; the provider answers or raises
Invoke(i, outcomes) ==
    /\ pc[i] = "invoke"
    /\ calls' = [calls EXCEPT ![i] = @ + 1]
    /\ usedClient' = [usedClient EXCEPT ![i] = bedrock_client]
    /\ \E o \in outcomes :
        IF ~bedrock_client.set
        THEN /\ Raise(i, Exc("AttributeError", "'NoneType' object has no attribute 'invoke_model'"))
             /\ UNCHANGED response
        ELSE IF o.raises
        THEN /\ Raise(i, o.exc)
             /\ UNCHANGED response
        ELSE /\ response' = [response EXCEPT ![i] = o.reply]
             /\ Advance(i, "normalize", "Invoked")
    /\ UNCHANGED <<bedrock_client, event, context, message, conversation_history, messages,
                   request_payload, clientWasUnset, clientsCreated, firstClient>>

\* lines 97-133
Normalize(i) ==
    /\ pc[i] = "normalize"
    /\ LET x == ExtractResponse(response[i])
       IN  IF x.ok
           THEN LET all == Append(messages[i], Turn("assistant", x.val))
                IN  /\ messages' = StoreMessages(i, all)
                    /\ result' = [result EXCEPT ![i] = SuccessEnvelope(x.val, all)]
                    /\ pc' = [pc EXCEPT ![i] = "done"]
                    /\ trace' = [trace EXCEPT ![i] = @ \o <<"Normalized", "Success">>]
                    /\ UNCHANGED exception
           ELSE /\ Raise(i, x.exc)
                /\ UNCHANGED messages
    /\ UNCHANGED <<bedrock_client, event, context, message, conversation_history,
                   request_payload, response, calls, usedClient, clientWasUnset,
                   clientsCreated, firstClient>>

\* the caller has the envelope; the invocation's frame is gone
Return(i) ==
    /\ pc[i] = "done"
    /\ pc' = [pc EXCEPT ![i] = "idle"]
    /\ event' = [event EXCEPT ![i] = NoEvent]
    /\ context' = [context EXCEPT ![i] = CtxNone]
    /\ message' = [message EXCEPT ![i] = NoText]
    /\ conversation_history' = [conversation_history EXCEPT ![i] = NoHistory]
    /\ messages' = [messages EXCEPT ![i] = <<>>]
    /\ request_payload' = [request_payload EXCEPT ![i] = NoPayload]
    /\ response' = [response EXCEPT ![i] = NoReply]
    /\ result' = [result EXCEPT ![i] = NoResult]
    /\ exception' = [exception EXCEPT ![i] = NoException]
    /\ trace' = [trace EXCEPT ![i] = <<>>]
    /\ calls' = [calls EXCEPT ![i] = 0]
    /\ usedClient' = [usedClient EXCEPT ![i] = NoClient]
    /\ clientWasUnset' = [clientWasUnset EXCEPT ![i] = FALSE]
    /\ UNCHANGED <<bedrock_client, clientsCreated, firstClient>>

\* ------------------------------------------------------------ specifications
NoneRunning == \A j \in Inv : pc[j] = "idle"

\* one invocation at a time, as the platform runs a warm process
Next ==
    \E i \in Inv :
        \/ NoneRunning /\ Begin(i, EventInputs[i], Contexts)
        \/ CheckClient(i)
        \/ CreateClient(i)
        \/ Decode(i)
        \/ Assemble(i)
        \/ Translate(i)
        \/ Invoke(i, OutcomeInputs[i])
        \/ Normalize(i)
        \/ Return(i)

Spec == Init /\ [][Next]_vars

\* invocations interleaving in one process
NextConc ==
    \E i \in Inv :
        \/ Begin(i, SmallEventInputs[i], SmallContexts)
        \/ CheckClient(i)
        \/ CreateClient(i)
        \/ Decode(i)
        \/ Assemble(i)
        \/ Translate(i)
        \/ Invoke(i, SmallOutcomeInputs[i])
        \/ Normalize(i)
        \/ Return(i)

ConcSpec == Init /\ [][NextConc]_vars

\* ------------------------------------------------------------ properties
Returned(i) == pc[i] = "done" /\ result[i].kind = "returned"
Succeeded(i) == Returned(i) /\ result[i].statusCode = 200
Failed(i) == Returned(i) /\ result[i].statusCode = 500

InputHistory(ev) == IF ev.body.hasHistory THEN ev.body.history ELSE <<>>

\* the request body is missing, is not JSON, or carries no message
MalformedRequest(ev) ==
    /\ ~ev.isNone
    /\ \/ ev.body.kind \in {"missing", "null", "invalid"}
       \/ ev.body.kind = "json" /\ (~ev.body.isObj \/ ~ev.body.hasMessage)

FailureBody(b) == b.success = FALSE /\ "error" \in DOMAIN b

\* C1: every finished invocation handed its caller an envelope, never an
\* exception: the four fixed headers, and either 200 with success = TRUE or
\* 500 with success = FALSE and an error string; a request without a body,
\* with a body that is not JSON, or without message gets the 500 envelope.
C1_AlwaysEnvelope ==
    \A i \in Inv :
        pc[i] = "done" =>
            /\ result[i].kind = "returned"
            /\ result[i].headers = Headers
            /\ Cardinality(DOMAIN result[i].headers) = 4
            /\ \/ result[i].statusCode = 200 /\ result[i].body.success = TRUE
               \/ result[i].statusCode = 500 /\ FailureBody(result[i].body)
            /\ MalformedRequest(event[i]) =>
                   result[i].statusCode = 500 /\ FailureBody(result[i].body)

C1_Witness ==
    \E i \in Inv :
        /\ Failed(i)
        /\ event[i].body.kind = "json" /\ event[i].body.isObj /\ ~event[i].body.hasMessage
        /\ exception[i].type = "KeyError"

\* C2: a success envelope's conversationHistory is the request's input
\* history, every turn kept in order, followed by the user turn carrying the
\* request message and the assistant turn carrying the text of the provider
\* reply; its response field is the content of that last turn.
C2_RoundTrip ==
    \A i \in Inv :
        Succeeded(i) =>
            LET h == result[i].body.conversationHistory
            IN  /\ h = InputHistory(event[i])
                        \o <<Turn("user", event[i].body.message),
                             Turn("assistant", response[i].content[1].text)>>
                /\ result[i].body.response = h[Len(h)].content

C2_Witness ==
    \E i \in Inv :
        /\ Succeeded(i)
        /\ Len(InputHistory(event[i])) = 2
        /\ \E k \in 1..2 : ~Recognized(InputHistory(event[i])[k])
        /\ Len(result[i].body.conversationHistory) = 4

\* the working transcript of an invocation that has decoded its request
Working(i) == conversation_history[i].items \o <<Turn("user", message[i])>>

ProviderArray(w) ==
    LET kept == SelectSeq(w, Recognized)
    IN  [k \in 1..Len(kept) |-> [role |-> kept[k].role, content |-> <<[text |-> kept[k].content]>>]]

\* a turn the loop cannot read: no role key, or a user or assistant turn without content
Unreadable(t) == ~t.hasRole \/ (Recognized(t) /\ ~t.hasContent)

FailedInTranslation(i) == trace[i] = <<"Start", "Decoded", "Assembled", "Failure">>

\* C3: the message array sent to the provider is the working transcript's
\* user and assistant turns, in order, each as {role, content: [{text}]};
\* a turn with another role is left out and does not fail the invocation;
\* with an empty history the array is the one user entry.
C3_Translation ==
    \A i \in Inv :
        /\ (Len(trace[i]) >= 4 /\ trace[i][4] = "Translated") =>
               /\ request_payload[i].messages = ProviderArray(Working(i))
               /\ conversation_history[i].items = <<>> =>
                      request_payload[i].messages =
                          <<[role |-> "user", content |-> <<[text |-> message[i]]>>]>>
        /\ FailedInTranslation(i) =>
               \E k \in 1..Len(Working(i)) : Unreadable(Working(i)[k])

C3_Witness ==
    \E i \in Inv :
        /\ pc[i] = "normalize"
        /\ Len(conversation_history[i].items) = 2
        /\ conversation_history[i].items[1].role = "system"
        /\ conversation_history[i].items[2].role = "assistant"
        /\ Len(request_payload[i].messages) = 2

Owned(c, i) == c = NoText \/ c[2] = i

\* C4: with invocations interleaving on one client handle, every turn of an
\* invocation's transcript, of its provider payload and of its returned
\* conversationHistory comes from its own request or its own reply.
C4_Isolation ==
    \A i \in Inv :
        /\ \A k \in 1..Len(messages[i]) : Owned(messages[i][k].content, i)
        /\ \A k \in 1..Len(request_payload[i].messages) :
               Owned(request_payload[i].messages[k].content[1].text, i)
        /\ Succeeded(i) =>
               /\ Owned(result[i].body.response, i)
               /\ result[i].body.conversationHistory =
                      InputHistory(event[i])
                          \o <<Turn("user", Text("question", i)),
                               Turn("assistant", Text("answer", i))>>

C4_Witness ==
    \E i, j \in Inv :
        /\ i # j
        /\ Succeeded(i)
        /\ pc[j] = "normalize"
        /\ usedClient[i].set /\ usedClient[i] = usedClient[j]

\* C5 as written: the client is constructed at most once per process.
C5_AtMostOnce == clientsCreated <= 1

\* C5, amended: the test of line 30 and the construction are separate steps
\* without a lock.  An invocation constructs a client only when its own test
\* saw the reference unset, so interleaved first invocations may each
\* construct one; the reference never holds a half-built handle: past the
\* test it is set, and every provider call went through a set handle.
C5_UnguardedLazyInit ==
    /\ [](\A i \in Inv :
            /\ pc[i] \in {"decode", "assemble", "translate", "invoke", "normalize"} =>
                   bedrock_client.set
            /\ calls[i] > 0 => usedClient[i].set
            /\ bedrock_client.set => bedrock_client.id \in 1..clientsCreated)
    /\ [][\A i \in Inv :
            (pc[i] = "create" /\ clientsCreated' > clientsCreated /\ pc'[i] # "create") =>
                clientWasUnset[i]]_vars

C5_Witness ==
    /\ clientsCreated = 2
    /\ bedrock_client.id = 2
    /\ \A i \in Inv : pc[i] = "decode" /\ clientWasUnset[i]

\* C6: the first invocation binds the client to the region segment of a
\* resource identifier of the form arn:aws:lambda:<region>:..., and to
\* us-east-1 when the identifier has another form or is absent; in both
\* cases the client is created and the invocation goes on.
C6_RegionOrDefault ==
    \A i \in Inv :
        (clientWasUnset[i] /\ context[i].present /\ pc[i] \notin {"idle", "init", "create"}) =>
            /\ trace[i] # <<"Start", "Failure">>
            /\ bedrock_client.set
            /\ bedrock_client.region =
                   IF context[i].arnIsStr
                   THEN extract_region_from_arn(context[i].arn)
                   ELSE "us-east-1"

\* the provider call of the invocation raised
FailedInProviderCall(i) ==
    /\ calls[i] = 1
    /\ trace[i] = <<"Start", "Decoded", "Assembled", "Translated", "Failure">>

HasErrorCode(i) == "errorCode" \in DOMAIN result[i].body

\* C7 as written: a failure body carries errorCode exactly when the failure
\* came from the provider call, and it is then the provider's code, or
\* Unknown when the provider error has none.
C7_ErrorCodeIffProviderCall ==
    \A i \in Inv :
        Failed(i) =>
            /\ HasErrorCode(i) <=> FailedInProviderCall(i)
            /\ HasErrorCode(i) =>
                   result[i].body.errorCode =
                       IF exception[i].hasCode THEN exception[i].code ELSE "Unknown"

\* C7, amended: a failure body carries errorCode exactly when the provider
\* call raised a ClientError (the service's error response); it is then the
\* error's code, or Unknown when it has none.  A provider call that fails
\* with another exception (no connection, a timeout, a rejected parameter)
\* gives, like a failure of decoding, translation or normalization, a body
\* of success = FALSE and error only.
C7_ErrorCodeIffClientError ==
    \A i \in Inv :
        Failed(i) =>
            /\ HasErrorCode(i) <=> exception[i].type = "ClientError"
            /\ exception[i].type = "ClientError" => FailedInProviderCall(i)
            /\ HasErrorCode(i) =>
                   result[i].body.errorCode =
                       IF exception[i].hasCode THEN exception[i].code ELSE "Unknown"
            /\ ~HasErrorCode(i) => DOMAIN result[i].body = {"success", "error"}

C7_Witness ==
    \E i \in Inv :
        /\ Failed(i)
        /\ FailedInProviderCall(i)
        /\ exception[i].type = "ClientError" /\ ~exception[i].hasCode
        /\ result[i].body.errorCode = "Unknown"

\* output.message.content[0].text is missing at some level of a JSON object
PathAbsent(r) ==
    \/ ~r.hasOutput
    \/ ~r.hasMessage
    \/ ~r.hasContent
    \/ r.content = <<>>
    \/ ~r.content[1].hasText

\* C8: a provider reply that is a JSON object without
\* output.message.content[0].text, whatever the level at which the path
\* stops, ends the invocation in a 500 envelope with success = FALSE and the
\* error 'No response content from the model'; no assistant turn is
\* appended and no success envelope is returned.
C8_StrictReplyCheck ==
    \A i \in Inv :
        (pc[i] = "done" /\ calls[i] = 1 /\ trace[i][Len(trace[i]) - 1] = "Invoked"
            /\ response[i].parses /\ response[i].isObj /\ PathAbsent(response[i])) =>
            /\ Failed(i)
            /\ result[i].body.success = FALSE
            /\ result[i].body.error = "No response content from the model"
            /\ messages[i] = Working(i)

StageOrder ==
    <<"Start", "Decoded", "Assembled", "Translated", "Invoked", "Normalized", "Success">>

Prefix(s, k) == SubSeq(s, 1, k)

\* C9: the stages of an invocation run in the one order and a failure ends
\* it at once; the provider is called at most once, never before the
\* request was translated, so never after a failed decoding; a failed
\* call or a failed reply check appends no assistant turn and returns no
\* success envelope.
C9_LinearPipeline ==
    \A i \in Inv :
        /\ \/ trace[i] = <<>>
           \/ \E k \in 1..Len(StageOrder) : trace[i] = Prefix(StageOrder, k)
           \/ \E k \in 1..5 : trace[i] = Prefix(StageOrder, k) \o <<"Failure">>
        /\ calls[i] <= 1
        /\ calls[i] = 1 => (Len(trace[i]) >= 4 /\ trace[i][4] = "Translated")
        /\ (pc[i] = "done" /\ trace[i][Len(trace[i])] = "Failure") =>
               /\ ~Succeeded(i)
               /\ Len(messages[i]) <= Len(conversation_history[i].items) + 1
        /\ Succeeded(i) => (trace[i] = StageOrder /\ calls[i] = 1)
        /\ (pc[i] = "invoke") => (calls[i] = 0 /\ trace[i] = Prefix(StageOrder, 4))

C9_Witness ==
    \E i \in Inv :
        /\ Failed(i)
        /\ FailedInProviderCall(i)
        /\ messages[i] = Working(i)

\* C10: with invocations following one another, the global reference, once
\* set, is never assigned again nor cleared, and every provider call goes
\* through the handle that was stored first, whatever the region of the
\* calling invocation's own resource identifier.
C10_ClientNeverReplaced ==
    [][/\ bedrock_client.set => bedrock_client' = bedrock_client
       /\ \A i \in Inv :
              calls'[i] > calls[i] =>
                  /\ usedClient'[i].set
                  /\ usedClient'[i] = firstClient
                  /\ usedClient'[i] = bedrock_client']_vars

C10_Witness ==
    \E i \in Inv :
        /\ pc[i] = "done"
        /\ calls[i] = 1
        /\ ~clientWasUnset[i]
        /\ context[i].present /\ context[i].arnIsStr
        /\ extract_region_from_arn(context[i].arn) # usedClient[i].region

====
